---- MODULE Spec2Model ----
(***************************************************************************)
(* The `create` command of iocage (src/iocage/cli/create.py): one          *)
(* invocation of cli() as a state machine.  The collaborators              *)
(* (ReleaseGenerator, JailGenerator, their properties and methods) are     *)
(* the environment: each call returns or raises, chosen with \E.           *)
(*                                                                         *)
(* Text is a sequence of pieces; the piece "=" is the character '=', every *)
(* other piece is a run of characters that holds no '='.                   *)
(***************************************************************************)
EXTENDS Integers, Sequences, FiniteSets, TLC

\* ---------------------------------------------------------------- bounds
MaxCount == 3
MaxProps == 2
MaxCountLen == 3
MaxStoreKeys == 2

\* ------------------------------------------------------------ input sets
None == "None"

host_release_version == "11.1-RELEASE"

ReleaseArgs == {None, "10.4-RELEASE"}
TemplateArgs == {None, "mytemplate"}
NameArgs == {None, "", "myjail"}
BasejailTypes == {None, "nullfs", "zfs"}
CountValues == (-1) .. MaxCount

\* ------------------------------------------------------- decimal numerals
Digits == <<"0", "1", "2", "3", "4", "5", "6", "7", "8", "9">>
IsDigit(c) == \E d \in 1..Len(Digits) : Digits[d] = c
DigitValue(c) == (CHOOSE d \in 1..Len(Digits) : Digits[d] = c) - 1

\* str(n) for an integer n
RECURSIVE NatText(_)
NatText(n) == IF n < 10 THEN << Digits[n + 1] >>
              ELSE NatText(n \div 10) \o << Digits[(n % 10) + 1] >>
IntText(n) == IF n < 0 THEN <<"-">> \o NatText(0 - n) ELSE NatText(n)

\* the --count texts of the workflow runs: the numerals of CountValues, one
\* with a digit-group separator, one that is no number
CountTexts == { IntText(n) : n \in CountValues } \cup { <<"1", ",">>, <<"a", "b", "c">> }

\* the --count texts validate_count is explored on
CountAlphabet == {"0", "1", "2", ",", "a", "-"}
AllCountTexts == UNION { [1..n -> CountAlphabet] : n \in 0..MaxCountLen }

Tokens ==
    { <<"tag", "=", "web01">>,
      <<"tag">>,
      <<"tag", "=", "a", "=", "b">>,
      <<"basejail_type", "=", "zfs">>,
      <<"basejail", "=", "no">>,
      <<"name", "=", "other">> }

PropLists == UNION { [1..n -> Tokens] : n \in 0..MaxProps }

\* what resource.fetched / resource.available can report of a release
Availabilities == {"fetched-local", "available-remote", "missing"}
\* resource.fetch(): fetches, raises, or returns leaving the release unfetched
FetchOutcomes == {"fetched", "raised", "returned_unfetched"}
\* one pass of the loop body
UnitOutcomes == {"created", "IocageException", "constructor_raised", "create_raised_other"}

VARIABLES
    args,          \* the command line: the options as given (never assigned)
    count,         \* the parameter `count`: what validate_count returned
    pc,            \* position in cli()
    release,       \* the local `release` (reassigned at line 96)
    resource,      \* the local `resource`
    availability,  \* what lines 108-109 (or the template lookup) found
    fetched,       \* current value of resource.fetched
    fetchCalls,    \* number of resource.fetch() calls
    jail_data,     \* the local dict `jail_data`
    errors,        \* the local `errors`
    i,             \* the loop variable
    outcomes,      \* one record per pass of the loop body, in order
    error,         \* the logger.error message that preceded exit(1)
    exitStatus,    \* << >> while running, <<s>> once the process ended with s
    store,         \* ConfigJSON: the mapping handed to map_output
    document,      \* ConfigJSON: the text map_output returned
    loaded         \* ConfigJSON: the mapping map_input returned

codecVars == <<store, document, loaded>>

vars == <<codecVars, args, count, pc, release, resource, availability, fetched, fetchCalls,
          jail_data, errors, i, outcomes, error, exitStatus>>

\* Python truth value of an optional text (`if name:`)
Truthy(x) == x # None /\ x # ""

\* ------------------------------------------------------------ dict values
Str(t) == [s |-> t]
Bool(b) == [b |-> b]
Num(n) == [n |-> n]
EmptyDict == [k \in {} |-> Str(<< >>)]
SetItem(d, k, v) == [x \in (DOMAIN d) \cup {k} |-> IF x = k THEN v ELSE d[x]]

NoResource == [kind |-> "none", name |-> None]

\* ------------------------------------------------- prop.split("=", maxsplit=1)
EqPositions(s) == { p \in 1..Len(s) : s[p] = "=" }
FirstEq(s) == CHOOSE p \in EqPositions(s) : \A q \in EqPositions(s) : p <= q
\* mutant: the token is split at its last '='
Split1_last(s) ==
    IF EqPositions(s) = {}
    THEN << s >>
    ELSE LET p == CHOOSE p \in EqPositions(s) : \A q \in EqPositions(s) : q <= p
         IN  << SubSeq(s, 1, p - 1), SubSeq(s, p + 1, Len(s)) >>

Split1(s) ==
    IF EqPositions(s) = {}
    THEN << s >>
    ELSE << SubSeq(s, 1, FirstEq(s) - 1), SubSeq(s, FirstEq(s) + 1, Len(s)) >>

\* lines 148-154: the loop over props; ok = FALSE when a token made
\* `key, value = ...` raise ValueError (the loop is left by exit(1))
RECURSIVE ApplyProps_skip(_, _)
ApplyProps_skip(d, toks) ==
    IF toks = << >>
    THEN [ok |-> TRUE, data |-> d]
    ELSE LET parts == Split1(Head(toks))
         IN  IF Len(parts) # 2
             THEN ApplyProps_skip(d, Tail(toks))
             ELSE ApplyProps_skip(SetItem(d, parts[1], Str(parts[2])), Tail(toks))

RECURSIVE ApplyProps(_, _)
ApplyProps(d, toks) ==
    IF toks = << >>
    THEN [ok |-> TRUE, data |-> d]
    ELSE LET parts == Split1(Head(toks))
         IN  IF Len(parts) # 2
             THEN [ok |-> FALSE, data |-> d]
             ELSE ApplyProps(SetItem(d, parts[1], Str(parts[2])), Tail(toks))

\* ------------------------------------------------------------------ Init
Init ==
    /\ args \in [release : ReleaseArgs, template : TemplateArgs,
                 count : CountTexts, props : PropLists, name : NameArgs,
                 basejail : BOOLEAN, basejail_type : BasejailTypes,
                 no_fetch : BOOLEAN]
    /\ count = 0
    /\ pc = "validate"
    /\ release = args.release
    /\ resource = NoResource
    /\ availability = "unknown"
    /\ fetched = FALSE
    /\ fetchCalls = 0
    /\ jail_data = EmptyDict
    /\ errors = FALSE
    /\ i = 0
    /\ outcomes = << >>
    /\ error = ""
    /\ exitStatus = << >>
    /\ store = EmptyDict
    /\ document = << >>
    /\ loaded = EmptyDict

\* exit(status) after logger.error(msg)
Exit(status, msg) ==
    /\ pc' = "exited"
    /\ exitStatus' = << status >>
    /\ error' = msg

\* an exception no handler of cli() catches: the interpreter ends with status 1
Raised ==
    /\ pc' = "raised"
    /\ exitStatus' = << 1 >>
    /\ error' = error

\* ------------------------------------------------------------ lines 37-49
\* value.replace(",", "")
RECURSIVE RemoveCommas(_)
RemoveCommas(t) ==
    IF t = << >> THEN << >>
    ELSE IF Head(t) = "," THEN RemoveCommas(Tail(t))
    ELSE << Head(t) >> \o RemoveCommas(Tail(t))

\* int(text): an optional sign, then one or more digits (the alphabet holds
\* no blank, '+' or '_'); anything else raises ValueError
AllDigits(t) == t # << >> /\ \A k \in 1..Len(t) : IsDigit(t[k])
IsIntLiteral(t) ==
    \/ AllDigits(t)
    \/ (t # << >> /\ Head(t) = "-" /\ AllDigits(Tail(t)))
RECURSIVE NatOf(_)
NatOf(t) == IF t = << >> THEN 0
            ELSE 10 * NatOf(SubSeq(t, 1, Len(t) - 1)) + DigitValue(t[Len(t)])
IntOf(t) == IF Head(t) = "-" THEN 0 - NatOf(Tail(t)) ELSE NatOf(t)

\* mutant: the commas are not removed before int()
validate_count_keepCommas(value) ==
    IF IsIntLiteral(value)
    THEN [ok |-> TRUE, value |-> IntOf(value)]
    ELSE [ok |-> FALSE, value |-> 0]

\* mutant: only positive counts are accepted
validate_count_positive(value) ==
    LET text == RemoveCommas(value)
    IN  IF IsIntLiteral(text) /\ IntOf(text) > 0
        THEN [ok |-> TRUE, value |-> IntOf(text)]
        ELSE [ok |-> FALSE, value |-> 0]

\* validate_count for a str value (click hands the option text over);
\* ok = FALSE is logger.error and exit(1)
validate_count(value) ==
    LET text == RemoveCommas(value)
    IN  IF IsIntLiteral(text)
        THEN [ok |-> TRUE, value |-> IntOf(text)]
        ELSE [ok |-> FALSE, value |-> 0]

\* the --count callback, run by click before cli() is entered
ValidateCount ==
    /\ pc = "validate"
    /\ LET r == validate_count(args.count)
       IN  IF r.ok
           THEN /\ count' = r.value
                /\ pc' = "start"
                /\ UNCHANGED <<error, exitStatus>>
           ELSE /\ count' = count
                /\ Exit(1, "is not a valid integer.")
    /\ UNCHANGED <<codecVars, args, release, resource, availability, fetched,
                   fetchCalls, jail_data, errors, i, outcomes>>

\* ------------------------------------------------------------ lines 89-99
\* mutant: the --basejail-type guard runs before source resolution
SelectSource_guardFirst ==
    /\ pc = "start"
    /\ release' = IF args.release = None /\ args.template = None
                  THEN host_release_version
                  ELSE args.release
    /\ jail_data' = IF Truthy(args.name)
                    THEN SetItem(EmptyDict, <<"name">>, Str(<<args.name>>))
                    ELSE EmptyDict
    /\ IF args.basejail_type # None /\ ~args.basejail
       THEN Exit(1, "Cannot set --basejail-type without --basejail option")
       ELSE /\ pc' = "resolve"
            /\ UNCHANGED <<error, exitStatus>>
    /\ UNCHANGED <<codecVars, args, count, resource, availability, fetched, fetchCalls, errors,
                   i, outcomes>>

\* mutant: the host release is taken whenever --release is absent
SelectSource_hostWhenNoRelease ==
    /\ pc = "start"
    /\ release' = IF args.release = None
                  THEN host_release_version
                  ELSE args.release
    /\ jail_data' = IF Truthy(args.name)
                    THEN SetItem(EmptyDict, <<"name">>, Str(<<args.name>>))
                    ELSE EmptyDict
    /\ pc' = "resolve"
    /\ UNCHANGED <<codecVars, args, count, resource, availability, fetched, fetchCalls, errors,
                   i, outcomes, error, exitStatus>>

SelectSource ==
    /\ pc = "start"
    /\ release' = IF args.release = None /\ args.template = None
                  THEN host_release_version
                  ELSE args.release
    /\ jail_data' = IF Truthy(args.name)
                    THEN SetItem(EmptyDict, <<"name">>, Str(<<args.name>>))
                    ELSE EmptyDict
    /\ pc' = "resolve"
    /\ UNCHANGED <<codecVars, args, count, resource, availability, fetched, fetchCalls, errors,
                   i, outcomes, error, exitStatus>>

\* ---------------------------------------------------------- lines 101-124
\* mutant: the `not resource.available` check is missing
ResolveRelease_noAvailableCheck ==
    /\ pc = "resolve"
    /\ release # None
    /\ resource' = [kind |-> "release", name |-> release]
    /\ \E found \in Availabilities :
        /\ availability' = found
        /\ fetched' = (found = "fetched-local")
        /\ IF found = "fetched-local"
           THEN /\ pc' = "basejail"
                /\ UNCHANGED <<error, exitStatus>>
           ELSE IF args.no_fetch
           THEN Exit(1, "not downloaded")
           ELSE /\ pc' = "fetch"
                /\ UNCHANGED <<error, exitStatus>>
    /\ UNCHANGED <<codecVars, args, count, release, fetchCalls, jail_data, errors, i, outcomes>>

\* mutant: --no-fetch is ignored
ResolveRelease_ignoreNoFetch ==
    /\ pc = "resolve"
    /\ release # None
    /\ resource' = [kind |-> "release", name |-> release]
    /\ \E found \in Availabilities :
        /\ availability' = found
        /\ fetched' = (found = "fetched-local")
        /\ IF found = "fetched-local"
           THEN /\ pc' = "basejail"
                /\ UNCHANGED <<error, exitStatus>>
           ELSE IF found = "missing"
           THEN Exit(1, "does not exist")
           ELSE /\ pc' = "fetch"
                /\ UNCHANGED <<error, exitStatus>>
    /\ UNCHANGED <<codecVars, args, count, release, fetchCalls, jail_data, errors, i, outcomes>>

ResolveRelease ==
    /\ pc = "resolve"
    /\ release # None
    /\ resource' = [kind |-> "release", name |-> release]
    /\ \E found \in Availabilities :
        /\ availability' = found
        /\ fetched' = (found = "fetched-local")
        /\ IF found = "fetched-local"
           THEN /\ pc' = "basejail"
                /\ UNCHANGED <<error, exitStatus>>
           ELSE IF found = "missing"
           THEN Exit(1, "does not exist")
           ELSE IF args.no_fetch
           THEN Exit(1, "not downloaded")
           ELSE /\ pc' = "fetch"
                /\ UNCHANGED <<error, exitStatus>>
    /\ UNCHANGED <<codecVars, args, count, release, fetchCalls, jail_data, errors, i, outcomes>>

\* -------------------------------------------------------------- line 125
\* mutant: fetch is called again until the release is fetched
Fetch_retry ==
    /\ pc = "fetch"
    /\ fetchCalls' = fetchCalls + 1
    /\ \E outcome \in FetchOutcomes :
        CASE outcome = "fetched" ->
                /\ fetched' = TRUE
                /\ pc' = "basejail"
                /\ UNCHANGED <<error, exitStatus>>
          [] outcome = "returned_unfetched" ->
                /\ fetched' = fetched
                /\ pc' = "fetch"
                /\ UNCHANGED <<error, exitStatus>>
          [] outcome = "raised" ->
                /\ fetched' = fetched
                /\ Raised
    /\ UNCHANGED <<codecVars, args, count, release, resource, availability, jail_data, errors,
                   i, outcomes>>

Fetch ==
    /\ pc = "fetch"
    /\ fetchCalls' = fetchCalls + 1
    /\ \E outcome \in FetchOutcomes :
        CASE outcome = "fetched" ->
                /\ fetched' = TRUE
                /\ pc' = "basejail"
                /\ UNCHANGED <<error, exitStatus>>
          [] outcome = "returned_unfetched" ->
                /\ fetched' = fetched
                /\ pc' = "basejail"
                /\ UNCHANGED <<error, exitStatus>>
          [] outcome = "raised" ->
                /\ fetched' = fetched
                /\ Raised
    /\ UNCHANGED <<codecVars, args, count, release, resource, availability, jail_data, errors,
                   i, outcomes>>

\* ---------------------------------------------------------- lines 126-135
\* JailGenerator(template, ...): looking up an existing jail by name
TemplateLookup(exists) == IF exists THEN "returned" ELSE "raised"

\* mutant: the lookup's exception is swallowed and the workflow goes on
ResolveTemplate_swallow ==
    /\ pc = "resolve"
    /\ release = None
    /\ IF args.template # None
       THEN \E exists \in BOOLEAN :
              /\ availability' = IF exists THEN "fetched-local" ELSE "missing"
              /\ resource' = [kind |-> "template", name |-> args.template]
              /\ fetched' = exists
              /\ pc' = "basejail"
              /\ UNCHANGED <<error, exitStatus>>
       ELSE /\ Exit(1, "No release or jail selected")
            /\ UNCHANGED <<resource, availability, fetched>>
    /\ UNCHANGED <<codecVars, args, count, release, fetchCalls, jail_data, errors, i, outcomes>>

ResolveTemplate ==
    /\ pc = "resolve"
    /\ release = None
    /\ IF args.template # None
       THEN \E exists \in BOOLEAN :
              /\ availability' = IF exists THEN "fetched-local" ELSE "missing"
              /\ IF TemplateLookup(exists) = "returned"
                 THEN /\ resource' = [kind |-> "template", name |-> args.template]
                      /\ fetched' = TRUE
                      /\ pc' = "basejail"
                      /\ UNCHANGED <<error, exitStatus>>
                 ELSE /\ Raised
                      /\ UNCHANGED <<resource, fetched>>
       ELSE /\ Exit(1, "No release or jail selected")
            /\ UNCHANGED <<resource, availability, fetched>>
    /\ UNCHANGED <<codecVars, args, count, release, fetchCalls, jail_data, errors, i, outcomes>>

\* ---------------------------------------------------------- lines 137-145
\* mutant: the guard on --basejail-type is missing
BasejailFlags_noGuard ==
    /\ pc = "basejail"
    /\ LET d1 == IF args.basejail
                 THEN SetItem(jail_data, <<"basejail">>, Bool(TRUE))
                 ELSE jail_data
       IN  IF args.basejail_type # None
           THEN jail_data' = SetItem(d1, <<"basejail_type">>, Str(<<args.basejail_type>>))
           ELSE jail_data' = d1
    /\ pc' = "props"
    /\ UNCHANGED <<codecVars, args, count, release, resource, availability, fetched, fetchCalls,
                   errors, i, outcomes, error, exitStatus>>

BasejailFlags ==
    /\ pc = "basejail"
    /\ LET d1 == IF args.basejail
                 THEN SetItem(jail_data, <<"basejail">>, Bool(TRUE))
                 ELSE jail_data
       IN  IF args.basejail_type # None
           THEN IF ~args.basejail
                THEN /\ jail_data' = d1
                     /\ Exit(1, "Cannot set --basejail-type without --basejail option")
                ELSE /\ jail_data' = SetItem(d1, <<"basejail_type">>,
                                             Str(<<args.basejail_type>>))
                     /\ pc' = "props"
                     /\ UNCHANGED <<error, exitStatus>>
           ELSE /\ jail_data' = d1
                /\ pc' = "props"
                /\ UNCHANGED <<error, exitStatus>>
    /\ UNCHANGED <<codecVars, args, count, release, resource, availability, fetched, fetchCalls,
                   errors, i, outcomes>>

\* ---------------------------------------------------------- lines 147-156
Overrides ==
    /\ pc = "props"
    /\ LET r == ApplyProps(jail_data, args.props)
       IN  /\ jail_data' = r.data
           /\ IF r.ok
              THEN /\ pc' = "loop"
                   /\ UNCHANGED <<error, exitStatus>>
              ELSE Exit(1, "Invalid property")
    /\ errors' = FALSE
    /\ i' = 0
    /\ UNCHANGED <<codecVars, args, count, release, resource, availability, fetched, fetchCalls,
                   outcomes>>

\* ---------------------------------------------------------- lines 157-176
\* mutant: a unit whose create raised IocageException is tried again
CreateUnit_retry ==
    /\ pc = "loop"
    /\ i < count
    /\ \E outcome \in UnitOutcomes :
        /\ outcomes' = Append(outcomes,
                              [unit |-> i, result |-> outcome, fetched |-> fetched])
        /\ IF outcome = "created"
           THEN /\ i' = i + 1
                /\ UNCHANGED <<pc, error, exitStatus>>
           ELSE IF outcome = "IocageException"
           THEN /\ i' = i
                /\ UNCHANGED <<pc, error, exitStatus>>
           ELSE /\ i' = i
                /\ Raised
    /\ UNCHANGED <<codecVars, args, count, release, resource, availability, fetched, fetchCalls,
                   jail_data, errors>>

\* mutant: every failure of the loop body is caught and the loop goes on
CreateUnit_catchAll ==
    /\ pc = "loop"
    /\ i < count
    /\ \E outcome \in UnitOutcomes :
        /\ outcomes' = Append(outcomes,
                              [unit |-> i, result |-> outcome, fetched |-> fetched])
        /\ i' = i + 1
        /\ UNCHANGED <<pc, error, exitStatus>>
    /\ UNCHANGED <<codecVars, args, count, release, resource, availability, fetched, fetchCalls,
                   jail_data, errors>>

\* one pass of the loop body for unit i
CreateUnit ==
    /\ pc = "loop"
    /\ i < count
    /\ \E outcome \in UnitOutcomes :
        /\ outcomes' = Append(outcomes,
                              [unit |-> i, result |-> outcome, fetched |-> fetched])
        /\ IF outcome \in {"created", "IocageException"}
           THEN /\ i' = i + 1
                /\ UNCHANGED <<pc, error, exitStatus>>
           ELSE /\ i' = i
                /\ Raised
    /\ UNCHANGED <<codecVars, args, count, release, resource, availability, fetched, fetchCalls,
                   jail_data, errors>>

\* -------------------------------------------------------------- line 178
FinalExit ==
    /\ pc = "loop"
    /\ ~(i < count)
    /\ Exit(IF errors THEN 1 ELSE 0, error)
    /\ UNCHANGED <<codecVars, args, count, release, resource, availability, fetched, fetchCalls,
                   jail_data, errors, i, outcomes>>

Next ==
    \/ ValidateCount
    \/ SelectSource
    \/ ResolveRelease
    \/ Fetch
    \/ ResolveTemplate
    \/ BasejailFlags
    \/ Overrides
    \/ CreateUnit
    \/ FinalExit

Spec == Init /\ [][Next]_vars

\* The statements of cli() run one after the other and every collaborator
\* call returns or raises: a step that can be taken is taken.  The override
\* lists are the short ones (the loop over props is a single step).
InitLive ==
    /\ Init
    /\ Len(args.props) <= 1
    /\ args.name # ""

FairSpec == InitLive /\ [][Next]_vars /\ WF_vars(Next)

\* validate_count alone, on every text over CountAlphabet, for a plain request
InitCount ==
    /\ args \in [release : {None}, template : {None}, count : AllCountTexts,
                 props : {<< >>}, name : {None}, basejail : {FALSE},
                 basejail_type : {None}, no_fetch : {FALSE}]
    /\ count = 0
    /\ pc = "validate"
    /\ release = args.release
    /\ resource = NoResource
    /\ availability = "unknown"
    /\ fetched = FALSE
    /\ fetchCalls = 0
    /\ jail_data = EmptyDict
    /\ errors = FALSE
    /\ i = 0
    /\ outcomes = << >>
    /\ error = ""
    /\ exitStatus = << >>
    /\ store = EmptyDict
    /\ document = << >>
    /\ loaded = EmptyDict

NextCount == ValidateCount \/ SelectSource

SpecCount == InitCount /\ [][NextCount]_vars

\* ===================================== libiocage/lib/Config/Type/JSON.py
\* The JSON text is a sequence of pieces: the structural characters, the
\* quote, the backslash, the literals true and false, digits, and runs of
\* other characters.  The blanks json.dumps may add between them are left out.
QUOTE == "\""
BACKSLASH == "\\"

StoreKeys == { <<"name">>, <<"basejail">>, <<"user.tag">> }
StoreValues ==
    { Str(<<"myjail">>), Str(<<"true">>), Str(<<"1">>), Str(<<QUOTE>>),
      Str(<<BACKSLASH, "n">>),
      Bool(TRUE), Bool(FALSE), Num(0), Num(12), Num(-3) }
Stores ==
    UNION { [ks -> StoreValues] :
              ks \in { x \in SUBSET StoreKeys : Cardinality(x) <= MaxStoreKeys } }

\* the order in which the members of the object are written
KeyOrder == << <<"basejail">>, <<"name">>, <<"user.tag">> >>

\* a JSON string literal: quote and backslash are escaped
RECURSIVE Escape(_)
Escape(t) ==
    IF t = << >> THEN << >>
    ELSE IF Head(t) \in {QUOTE, BACKSLASH}
         THEN << BACKSLASH, Head(t) >> \o Escape(Tail(t))
         ELSE << Head(t) >> \o Escape(Tail(t))
EncodeString(t) == << QUOTE >> \o Escape(t) \o << QUOTE >>

EncodeValue(v) ==
    IF DOMAIN v = {"s"} THEN EncodeString(v.s)
    ELSE IF DOMAIN v = {"b"} THEN (IF v.b THEN <<"true">> ELSE <<"false">>)
    ELSE IntText(v.n)

RECURSIVE EncodeMembers(_, _, _)
EncodeMembers(data, keys, first) ==
    IF keys = << >> THEN << >>
    ELSE IF Head(keys) \notin DOMAIN data
         THEN EncodeMembers(data, Tail(keys), first)
         ELSE (IF first THEN << >> ELSE << "," >>)
              \o EncodeString(Head(keys)) \o << ":" >>
              \o EncodeValue(data[Head(keys)])
              \o EncodeMembers(data, Tail(keys), FALSE)

\* libiocage.lib.helpers.to_json: the mapping as one flat JSON object
to_json(data) == << "{" >> \o EncodeMembers(data, KeyOrder, TRUE) \o << "}" >>

\* the mapping with every value written as text ("yes"/"no" for a boolean)
Textual(data) ==
    [k \in DOMAIN data |->
        IF DOMAIN data[k] = {"b"} THEN Str(IF data[k].b THEN <<"yes">> ELSE <<"no">>)
        ELSE IF DOMAIN data[k] = {"n"} THEN Str(IntText(data[k].n))
        ELSE data[k]]

\* mutant: the values are turned into text before they are serialised
map_output_textual(data) == to_json(Textual(data))

\* ConfigJSON.map_output
map_output(data) == to_json(data)

\* json.load: a string literal, read from just after its opening quote
RECURSIVE ReadString(_, _)
ReadString(acc, t) ==
    IF Head(t) = QUOTE THEN [val |-> acc, rest |-> Tail(t)]
    ELSE IF Head(t) = BACKSLASH
         THEN ReadString(Append(acc, t[2]), SubSeq(t, 3, Len(t)))
         ELSE ReadString(Append(acc, Head(t)), Tail(t))

RECURSIVE ReadNumber(_, _)
ReadNumber(acc, t) ==
    IF t # << >> /\ (IsDigit(Head(t)) \/ Head(t) = "-")
    THEN ReadNumber(Append(acc, Head(t)), Tail(t))
    ELSE [val |-> Num(IntOf(acc)), rest |-> t]

ReadValue(t) ==
    IF Head(t) = QUOTE
    THEN LET r == ReadString(<< >>, Tail(t))
         IN  [val |-> Str(r.val), rest |-> r.rest]
    ELSE IF Head(t) = "true" THEN [val |-> Bool(TRUE), rest |-> Tail(t)]
    ELSE IF Head(t) = "false" THEN [val |-> Bool(FALSE), rest |-> Tail(t)]
    ELSE ReadNumber(<< >>, t)

\* the members of an object, read from the opening quote of a key
RECURSIVE ReadMembers(_, _)
ReadMembers(d, t) ==
    LET key == ReadString(<< >>, Tail(t))
        val == ReadValue(Tail(key.rest))
        d1 == SetItem(d, key.val, val.val)
    IN  IF Head(val.rest) = ","
        THEN ReadMembers(d1, Tail(val.rest))
        ELSE d1

\* ConfigJSON.map_input: json.load of an object
map_input(data) ==
    IF data[2] = "}" THEN EmptyDict ELSE ReadMembers(EmptyDict, Tail(data))

MapOutput ==
    /\ pc = "encode"
    /\ document' = map_output(store)
    /\ pc' = "decode"
    /\ UNCHANGED <<store, loaded, args, count, release, resource, availability,
                   fetched, fetchCalls, jail_data, errors, i, outcomes, error,
                   exitStatus>>

MapInput ==
    /\ pc = "decode"
    /\ loaded' = map_input(document)
    /\ pc' = "decoded"
    /\ UNCHANGED <<store, document, args, count, release, resource, availability,
                   fetched, fetchCalls, jail_data, errors, i, outcomes, error,
                   exitStatus>>

\* one save and load of a property mapping through ConfigJSON
InitCodec ==
    /\ store \in Stores
    /\ document = << >>
    /\ loaded = EmptyDict
    /\ pc = "encode"
    /\ args = [release |-> None, template |-> None, count |-> <<"1">>,
               props |-> << >>, name |-> None, basejail |-> FALSE,
               basejail_type |-> None, no_fetch |-> FALSE]
    /\ count = 0
    /\ release = None
    /\ resource = NoResource
    /\ availability = "unknown"
    /\ fetched = FALSE
    /\ fetchCalls = 0
    /\ jail_data = EmptyDict
    /\ errors = FALSE
    /\ i = 0
    /\ outcomes = << >>
    /\ error = ""
    /\ exitStatus = << >>

NextCodec == MapOutput \/ MapInput

SpecCodec == InitCodec /\ [][NextCodec]_vars

Terminated == pc \in {"exited", "raised"}

\* ================================================================ claims
Range(s) == { s[k] : k \in 1..Len(s) }
Malformed(tok) == "=" \notin Range(tok)
CreateCalled(o) == o.result # "constructor_raised"
FinalExitReached == pc = "exited" /\ error = ""
CountRejected == pc = "exited" /\ error = "is not a valid integer."
\* lines 91-99 have run
SourceSelected == pc \notin {"validate", "start"} /\ ~CountRejected

\* C1: once the batch has started (count >= 1), every unit 0..count-1 is
\* attempted exactly once, in increasing index order, whatever the outcome of
\* the earlier units (constructing, instantiating or persisting them).
C1_BatchIsolation ==
    (Terminated /\ outcomes # << >> /\ count >= 1)
        => /\ Len(outcomes) = count
           /\ \A k \in 1..Len(outcomes) : outcomes[k].unit = k - 1

\* C2: when the batch loop has run to the final exit, the exit status is
\* non-zero if and only if at least one unit failed to be created.
C2_FailureAggregation ==
    FinalExitReached
        => ((exitStatus[1] # 0)
              <=> (\E k \in 1..Len(outcomes) : outcomes[k].result # "created"))

\* C3: resource.fetch is invoked at most once per invocation; for a release
\* found available but not fetched, under auto-fetch, it has been invoked
\* exactly once as soon as resolution is over, which is before the first unit,
\* and it is not invoked during or after the batch loop.
C3_FetchOnce ==
    /\ fetchCalls <= 1
    /\ (pc = "fetch" => fetchCalls = 0 /\ outcomes = << >>)
    /\ (/\ resource.kind = "release"
        /\ availability = "available-remote"
        /\ ~args.no_fetch
        /\ pc # "fetch")
          => fetchCalls = 1
    /\ (outcomes # << >> /\ fetchCalls = 1)
          => (availability = "available-remote" /\ ~args.no_fetch)

C3_Witness ==
    /\ pc = "exited"
    /\ fetchCalls = 1
    /\ count >= 3
    /\ Len(outcomes) = count

\* C4: with a release as the source, jail.create(resource) is never called for
\* a unit while the release is not fetched.
C4_SourceReadiness ==
    \A k \in 1..Len(outcomes) :
        (resource.kind = "release" /\ CreateCalled(outcomes[k]))
            => outcomes[k].fetched

\* C5: a release that is neither fetched nor available ends the workflow with
\* exit status 1, with no fetch and no unit, for every count and fetch policy.
C5_MissingRelease ==
    (resource.kind = "release" /\ availability = "missing")
        => /\ pc = "exited"
           /\ exitStatus = << 1 >>
           /\ fetchCalls = 0
           /\ outcomes = << >>

C5_Witness ==
    /\ resource.kind = "release"
    /\ availability = "missing"
    /\ ~args.no_fetch
    /\ count >= 2
    /\ pc = "exited"

\* C6: under --no-fetch, a release that is available but not fetched ends the
\* workflow with exit status 1, with no fetch and no unit; a release that is
\* already fetched is resolved without fetch and without a resolution error,
\* --no-fetch or not.
C6_NoFetch ==
    /\ (resource.kind = "release" /\ availability = "available-remote" /\ args.no_fetch)
          => /\ pc = "exited"
             /\ exitStatus = << 1 >>
             /\ fetchCalls = 0
             /\ outcomes = << >>
    /\ (resource.kind = "release" /\ availability = "fetched-local")
          => /\ fetchCalls = 0
             /\ pc # "fetch"
             /\ error \notin {"does not exist", "not downloaded"}

C6_Witness ==
    /\ resource.kind = "release"
    /\ availability = "available-remote"
    /\ args.no_fetch
    /\ count >= 2
    /\ error = "not downloaded"

\* C7: a request with both --release and --template is rejected before any
\* source resolution: no availability query, no fetch, no unit.
C7_MutualExclusivity ==
    (args.release # None /\ args.template # None)
        => /\ availability = "unknown"
           /\ fetchCalls = 0
           /\ outcomes = << >>
           /\ pc \notin {"fetch", "basejail", "props", "loop"}
           /\ (Terminated => exitStatus = << 1 >>)

\* C8: --basejail-type without --basejail is rejected with exit status 1
\* before any unit is created, for every count, selector and override list.
C8_BasejailTypeGuard ==
    (args.basejail_type # None /\ ~args.basejail)
        => /\ outcomes = << >>
           /\ pc \notin {"props", "loop"}
           /\ (Terminated => exitStatus = << 1 >>)

C8_Witness ==
    /\ args.basejail_type # None
    /\ ~args.basejail
    /\ error = "Cannot set --basejail-type without --basejail option"
    /\ count >= 2
    /\ args.props # << >>
    /\ resource.kind = "template"

\* C9: a token without '=' anywhere in the override list ends the workflow
\* with exit status 1 and no unit is attempted.
C9_MalformedToken ==
    (\E k \in 1..Len(args.props) : Malformed(args.props[k]))
        => /\ outcomes = << >>
           /\ pc # "loop"
           /\ (Terminated => exitStatus = << 1 >>)

C9_Witness ==
    /\ Len(args.props) = 2
    /\ ~Malformed(args.props[1])
    /\ Malformed(args.props[2])
    /\ error = "Invalid property"
    /\ count >= 2

\* C10: a template selector that names no existing jail makes resolution fail
\* and no unit is attempted; units are attempted only from a template that
\* exists.
C10_TemplateResolution ==
    /\ (release = None /\ availability = "missing")
          => /\ pc = "raised"
             /\ exitStatus = << 1 >>
             /\ outcomes = << >>
    /\ (resource.kind = "template" /\ pc \in {"basejail", "props", "loop"})
          => availability = "fetched-local"
    /\ (release = None /\ outcomes # << >>)
          => (resource.kind = "template" /\ availability = "fetched-local")

C10_Witness ==
    /\ release = None
    /\ args.template # None
    /\ availability = "missing"
    /\ count >= 2
    /\ pc = "raised"

\* C11: the explicit name given with --name is in the properties of a unit
\* only when count = 1; with count > 1 no two units are constructed with the
\* same explicit name.
C11_ExplicitNameOnlyForOne ==
    (/\ outcomes # << >>
     /\ Truthy(args.name)
     /\ <<"name">> \in DOMAIN jail_data
     /\ jail_data[<<"name">>] = Str(<<args.name>>))
        => count = 1

\* C12: in the properties handed to the units, the key basejail_type is
\* present only if the key basejail is set to true.
C12_BasejailInvariant ==
    (pc = "loop" /\ <<"basejail_type">> \in DOMAIN jail_data)
        => /\ <<"basejail">> \in DOMAIN jail_data
           /\ jail_data[<<"basejail">>] = Bool(TRUE)

\* C13: with neither --release nor --template, the release used for
\* resolution, fetch and every unit is the host's release version; with a
\* release or a template given, the host release is never substituted.
C13_DefaultSource ==
    SourceSelected
        => IF args.release = None /\ args.template = None
           THEN /\ release = host_release_version
                /\ (resource.kind # "none"
                      => resource = [kind |-> "release", name |-> host_release_version])
           ELSE /\ release = args.release
                /\ release # host_release_version
                /\ resource.name # host_release_version
                /\ (resource.kind = "release" => resource.name = args.release)
                /\ (resource.kind = "template"
                      => args.release = None /\ resource.name = args.template)

C13_Witness ==
    /\ args.release = None
    /\ args.template = None
    /\ resource = [kind |-> "release", name |-> host_release_version]
    /\ fetchCalls = 1
    /\ Len(outcomes) >= 2

\* C14: validate_count maps a text of digits and commas (with a digit) to the
\* integer its digits denote once the commas are removed, and ends the process
\* with exit status 1, before the workflow body, for a text that is not
\* numeric after comma removal.
DigitsAndCommas(t) ==
    /\ \A k \in 1..Len(t) : IsDigit(t[k]) \/ t[k] = ","
    /\ \E k \in 1..Len(t) : IsDigit(t[k])
RECURSIVE Denoted(_, _)
Denoted(acc, t) ==
    IF t = << >> THEN acc
    ELSE IF Head(t) = "," THEN Denoted(acc, Tail(t))
    ELSE Denoted(10 * acc + DigitValue(Head(t)), Tail(t))
NotComma(c) == c # ","
Numeric(t) ==
    LET d == SelectSeq(t, NotComma)
    IN  /\ Len(d) >= 1
        /\ \A k \in 2..Len(d) : IsDigit(d[k])
        /\ (IsDigit(d[1]) \/ (d[1] = "-" /\ Len(d) >= 2))

C14_CountNormalization ==
    pc # "validate"
        => /\ DigitsAndCommas(args.count)
                => (count = Denoted(0, args.count) /\ ~CountRejected)
           /\ ~Numeric(args.count)
                => (CountRejected /\ exitStatus = << 1 >> /\ count = 0)

C14_Witness ==
    /\ args.count = <<"1", ",", "0">>
    /\ count = 10
    /\ pc = "resolve"

KeyLen(tok) ==
    CHOOSE n \in 0..Len(tok) :
        /\ \A q \in 1..n : tok[q] # "="
        /\ (n = Len(tok) \/ tok[n + 1] = "=")
TokKey(tok) == SubSeq(tok, 1, KeyLen(tok))
TokValue(tok) == SubSeq(tok, KeyLen(tok) + 2, Len(tok))
TokensWithKey(key) == { j \in 1..Len(args.props) : TokKey(args.props[j]) = key }
LastWithKey(key) ==
    CHOOSE j \in TokensWithKey(key) : \A q \in TokensWithKey(key) : q <= j
OverridesApplied == pc = "loop" \/ outcomes # << >> \/ FinalExitReached
FlagValues ==
    [key \in  (IF Truthy(args.name) THEN {<<"name">>} ELSE {})
         \cup (IF args.basejail THEN {<<"basejail">>} ELSE {})
         \cup (IF args.basejail_type # None THEN {<<"basejail_type">>} ELSE {})
      |-> CASE key = <<"name">> -> Str(<<args.name>>)
            [] key = <<"basejail">> -> Bool(TRUE)
            [] key = <<"basejail_type">> -> Str(<<args.basejail_type>>)]

C16_OverrideApplication ==
    OverridesApplied
        => /\ DOMAIN jail_data
                = DOMAIN FlagValues
                    \cup { TokKey(args.props[j]) : j \in 1..Len(args.props) }
           /\ \A key \in DOMAIN jail_data :
                IF TokensWithKey(key) # {}
                THEN jail_data[key] = Str(TokValue(args.props[LastWithKey(key)]))
                ELSE jail_data[key] = FlagValues[key]

C16_Witness ==
    /\ pc = "loop"
    /\ args.props = << <<"tag", "=", "a", "=", "b">>, <<"name", "=", "other">> >>
    /\ jail_data[<<"tag">>] = Str(<<"a", "=", "b">>)
    /\ args.name = "myjail"
    /\ jail_data[<<"name">>] = Str(<<"other">>)

\* C18: only an IocageException raised by jail.create is a unit-local
\* failure; a failure of the unit's JailGenerator construction, or any other
\* exception raised by create, leaves the loop at that unit: no later unit is
\* attempted and the final exit is not reached.
Propagates(o) == o.result \in {"constructor_raised", "create_raised_other"}

C18_HandlerScope ==
    \A k \in 1..Len(outcomes) :
        /\ outcomes[k].unit = k - 1
        /\ Propagates(outcomes[k])
              => /\ k = Len(outcomes)
                 /\ i = outcomes[k].unit
                 /\ pc = "raised"
        /\ ~Propagates(outcomes[k])
              => /\ i > outcomes[k].unit
                 /\ (k = Len(outcomes) => pc \in {"loop", "exited"})
                 /\ (pc = "exited" => Len(outcomes) = count)

C18_Witness ==
    /\ count = 3
    /\ pc = "raised"
    /\ Len(outcomes) = 2
    /\ outcomes[1].result = "IocageException"
    /\ outcomes[2].result = "constructor_raised"

\* C19: the basejail-type guard and the override-token check run after source
\* resolution: a run rejected by either has resolved its source, has called
\* fetch exactly once if the release was available but not fetched (auto-fetch),
\* and has attempted no unit.
RejectedLate ==
    error \in {"Cannot set --basejail-type without --basejail option",
               "Invalid property"}

C19_ValidationOrder ==
    RejectedLate
        => /\ pc = "exited"
           /\ exitStatus = << 1 >>
           /\ resource.kind # "none"
           /\ availability \in {"fetched-local", "available-remote"}
           /\ outcomes = << >>
           /\ (availability = "available-remote"
                 => (fetchCalls = 1 /\ ~args.no_fetch /\ resource.kind = "release"))
           /\ (availability = "fetched-local" => fetchCalls = 0)

C19_Witness ==
    /\ error = "Invalid property"
    /\ availability = "available-remote"
    /\ fetchCalls = 1
    /\ count >= 2

\* C17: every run of the workflow eventually reaches a process exit, an early
\* exit(1) from a batch-fatal check or the final exit after the loop (as
\* stated: the process ends by one of the exit calls).
C17_ReachesExit == <>(pc = "exited")

\* C17, amended: every run eventually ends, by an exit call or by an exception
\* of a collaborator call that propagates out of cli(); every step moves to a
\* later stage, except the loop, which moves to the next unit.
Stage ==
    CASE pc = "validate" -> 0
      [] pc = "start" -> 1
      [] pc = "resolve" -> 2
      [] pc = "fetch" -> 3
      [] pc = "basejail" -> 4
      [] pc = "props" -> 5
      [] pc = "loop" -> 6
      [] pc \in {"exited", "raised"} -> 7
Advances ==
    \/ Stage' > Stage
    \/ (pc = "loop" /\ pc' = "loop" /\ i' = i + 1 /\ i < count)

C17_Termination == (<>Terminated) /\ [][Advances]_vars

C17_Witness ==
    /\ FinalExitReached
    /\ count = 3
    /\ Len(outcomes) = 3
    /\ fetchCalls = 1

\* C15: for a flat property mapping with string, boolean and integer values,
\* map_input of the text produced by map_output gives back an equal mapping:
\* same keys (unknown ones included), same values.
C15_RoundTrip ==
    pc = "decoded"
        => /\ DOMAIN loaded = DOMAIN store
           /\ \A k \in DOMAIN store : loaded[k] = store[k]

C15_Witness ==
    /\ pc = "decoded"
    /\ DOMAIN store = { <<"basejail">>, <<"user.tag">> }
    /\ store[<<"basejail">>] = Bool(TRUE)
    /\ store[<<"user.tag">>] = Str(<<QUOTE>>)
    /\ loaded = store
====
